---------------------------- MODULE Spec2Model ----------------------------
(***************************************************************************)
(* Model of task_geo.dataset_builders.nasa: the bounding-box partitioner   *)
(* (area_partition), the grid matcher (match_grid_point) and the 'area'    *)
(* branch of nasa_connector that chains them.                              *)
(*                                                                         *)
(* Numbers.  Coordinates are fixed-point integers in units of 1/20 degree  *)
(* (0.05 degree), so 0.25 and 0.5 degree are the integers 5 and 10.  The   *)
(* arithmetic of the source is modelled as exact real arithmetic: a        *)
(* cluster center is the pair of coordinate sums with the member count n   *)
(* (center = sum / n), a cluster radius r is kept as the integer           *)
(* r2 = (n * r)^2 in squared units, and floor/ceil of expressions in       *)
(* sqrt(r2) are computed exactly through the integer ceiling of the        *)
(* square root.  Floating-point rounding error is not modelled.            *)
(*                                                                         *)
(* A missing coordinate (NaN) is the sentinel NaN.                         *)
(***************************************************************************)
EXTENDS Integers, Sequences, FiniteSets, TLC

\* Bounds of the model.
MaxRows == 4
MaxLocs == 2
MaxGridRows == 3
MaxCoord == 60

\* n degrees in model units (1/20 degree).
Deg(n) == 20 * n

\* The half-degree grid step (the 0.5 and 2 of area_partition.py:56-59 and
\* nasa_connector.py:119) and the 0.25 offset of the grid centers.
Half == Deg(1) \div 2
Quarter == Deg(1) \div 4

\* The sentinel standing for a missing coordinate.
NaN == 999999

isna(x) == x = NaN

\* The stopping radius of area_partition.py:51, in model units.
MaxRadiusDoubled == Deg(10)
MaxRadius == Deg(5)

\* k before the first pass of the loop (area_partition.py:36).
InitialKOffByOne == 0 + 1
InitialK == 0

------------------------------------------------------------------------------
(* Arithmetic helpers *)

FloorDiv(a, b) == a \div b

CeilDiv(a, b) == -((-a) \div b)

\* np.floor(2 * v) * 0.5 and np.ceil(2 * v) * 0.5 for v = num / den degrees
\* (num in model units, den > 0): the half-degree multiple at or below / above.
FloorHalf(num, den) == Half * FloorDiv(num, Half * den)

CeilHalf(num, den) == Half * CeilDiv(num, Half * den)

\* Least s in lo..hi with s * s >= v (hi * hi >= v is required).
RECURSIVE SqrtSearch(_, _, _)
SqrtSearch(v, lo, hi) ==
    IF lo >= hi THEN hi
    ELSE LET mid == (lo + hi) \div 2
         IN  IF mid * mid >= v THEN SqrtSearch(v, lo, mid)
             ELSE SqrtSearch(v, mid + 1, hi)

\* ceil(sqrt(v)) for 0 <= v < 2^31.
CeilSqrt(v) == SqrtSearch(v, 0, 46340)

RECURSIVE SumOver(_, _)
SumOver(f, S) ==
    IF S = {} THEN 0
    ELSE LET j == CHOOSE j \in S : TRUE
         IN  f[j] + SumOver(f, S \ {j})

MaxOf(S) == CHOOSE m \in S : \A o \in S : o <= m

\* Python's round(num / den) for den > 0: to nearest, ties to the even integer.
PyRound(num, den) ==
    LET q == num \div den
        r == num % den
    IN  IF 2 * r < den THEN q
        ELSE IF 2 * r > den THEN q + 1
        ELSE IF q % 2 = 0 THEN q ELSE q + 1

------------------------------------------------------------------------------
(* Inputs *)

Place(name, lat, lon) == [name |-> name, lat |-> lat, lon |-> lon]

\* The rows a caller's df_locations is drawn from (degrees x 20).  They hold
\* half-degree aligned and unaligned points, points more than 10 degrees
\* apart, a repeated row, one point under two names, and rows that miss one
\* or both coordinates.
Places ==
    << Place("A", 0, 0),
       Place("B", 20, 0),
       Place("C", 6, 0),
       Place("D", 6, 196),
       Place("E", 180, 180),
       Place("F", 0, 100),
       Place("G", 0, 200),
       Place("H", 160, 60),
       Place("I", 0, 500),
       Place("A", 0, 0),
       Place("J", 20, 0),
       Place("K", NaN, 402),
       Place("L", 206, NaN),
       Place("M", NaN, NaN) >>

\* The rows of Places at the indices S, in the order of Places.
RowsAt(S) ==
    [i \in 1..Cardinality(S) |->
        Places[CHOOSE j \in S : Cardinality({m \in S : m < j}) = i - 1]]

\* Locations and grid cells of a direct call of match_grid_point.
MatchPlaces ==
    { Place("P", lat, lon) : lat \in {206, 210}, lon \in {402, 396} }

MatchCells == { <<lat, lon>> : lat \in {205, 215}, lon \in {405, 395} }

GridRow(lat, lon, value) == [lat |-> lat, lon |-> lon, value |-> value]

SeqsUpTo(S, n) == UNION { [1..m -> S] : m \in 0..n }

------------------------------------------------------------------------------
(* Table operations (pandas) *)

\* DataFrame.drop_duplicates(): the first occurrence of every row is kept;
\* missing values compare equal to each other.
RECURSIVE drop_duplicates(_)
drop_duplicates(s) ==
    IF s = << >> THEN << >>
    ELSE LET front == drop_duplicates(SubSeq(s, 1, Len(s) - 1))
             last == s[Len(s)]
         IN  IF \E i \in 1..Len(front) : front[i] = last THEN front
             ELSE Append(front, last)

\* df[['lat', 'lon']]
LatLon(s) == [i \in 1..Len(s) |-> [lat |-> s[i].lat, lon |-> s[i].lon]]

\* DataFrame.dropna(): rows with any missing value are dropped.
dropna(s) == SelectSeq(s, LAMBDA r : ~isna(r.lat) /\ ~isna(r.lon))

\* nasa_connector.py:157-159: only the rows missing both coordinates go.
FilterMissing(s) == SelectSeq(s, LAMBDA r : ~(isna(r.lon) /\ isna(r.lat)))

\* pd.concat of a list of tables.
RECURSIVE concat(_)
concat(tables) ==
    IF tables = << >> THEN << >>
    ELSE concat(SubSeq(tables, 1, Len(tables) - 1)) \o tables[Len(tables)]

------------------------------------------------------------------------------
(* area_partition: clusters, radii, boxes *)

\* The indices of the points labelled i.
Members(lab, i) == { j \in DOMAIN lab : lab[j] = i }

\* kmeans.cluster_centers_[i]: the mean of the members, kept as the two
\* coordinate sums and the member count (center = sum / n).
ClusterCenter(X, lab, i) ==
    LET M == Members(lab, i)
    IN  [lat |-> SumOver([j \in DOMAIN X |-> X[j].lat], M),
         lon |-> SumOver([j \in DOMAIN X |-> X[j].lon], M),
         n   |-> Cardinality(M)]

\* (c.n * norm(p - c))^2 for a point p and a center c.
Dist2N(p, c) ==
    (c.n * p.lat - c.lat) * (c.n * p.lat - c.lat)
    + (c.n * p.lon - c.lon) * (c.n * p.lon - c.lon)

\* norm(p - c) <= norm(p - d), both centers with n >= 1.
NoFarther(p, c, d) == Dist2N(p, c) * d.n * d.n <= Dist2N(p, d) * c.n * c.n

\* area_partition.py:45-47: the radius of cluster i, as (c.n * radius)^2.
ClusterRadius(X, lab, i) ==
    LET c == ClusterCenter(X, lab, i)
    IN  MaxOf({ Dist2N(X[j], c) : j \in Members(lab, i) })

\* radius <= limit for a radius kept as r2 = (n * radius)^2.
RadiusAtMost(r2, n, limit) == r2 <= (n * limit) * (n * limit)

\* 60 x the inertia (sum of squared distances to the own center) of a
\* labelling; 60 is a common multiple of the cluster sizes 1..6.
Inertia60(X, lab, k) ==
    SumOver([i \in 1..k |->
                LET c == ClusterCenter(X, lab, i)
                    q == SumOver([j \in DOMAIN X |->
                                    X[j].lat * X[j].lat + X[j].lon * X[j].lon],
                                 Members(lab, i))
                IN  (c.n * q - c.lat * c.lat - c.lon * c.lon) * (60 \div c.n)],
            1..k)

\* The labellings of the points X into k non-empty clusters, the clusters
\* numbered in the order of their first member.  (The numbering sklearn gives
\* is arbitrary; it only orders the rows of the returned array of boxes.)
Labellings(X, k) ==
    { lab \in [DOMAIN X -> 1..k] :
        /\ \A i \in 1..k : \E j \in DOMAIN X : lab[j] = i
        /\ \A j \in DOMAIN X :
              lab[j] = 1 \/ \E m \in 1..(j - 1) : lab[m] = lab[j] - 1 }

\* KMeans(n_clusters=k).fit(X).labels_ for k <= Len(X): the labellings a
\* converged run can end in.  Every cluster is non-empty, every center is the
\* mean of its members and no point is closer to another center than to its own.
KMeans(X, k) ==
    { lab \in Labellings(X, k) :
        LET c == [i \in 1..k |-> ClusterCenter(X, lab, i)]
        IN  \A j \in DOMAIN X : \A i \in 1..k :
                NoFarther(X[j], c[lab[j]], c[i]) }

\* The labellings of least inertia: what KMeans returns when one of its
\* restarts finds the global optimum.
KMeansBest(X, k) ==
    { lab \in KMeans(X, k) :
        \A other \in KMeans(X, k) : Inertia60(X, lab, k) <= Inertia60(X, other, k) }

Box(min_lat, min_lon, max_lat, max_lon) ==
    [min_lat |-> min_lat, min_lon |-> min_lon,
     max_lat |-> max_lat, max_lon |-> max_lon]

\* area_partition.py:60-66: a box with min = max on an axis is widened by
\* half a degree on each side of that axis.
WidenNever(b) == b
Widen(b) ==
    LET lat == IF b.min_lat = b.max_lat
               THEN [b EXCEPT !.min_lat = @ - Half, !.max_lat = @ + Half]
               ELSE b
    IN  IF lat.min_lon = lat.max_lon
        THEN [lat EXCEPT !.min_lon = @ - Half, !.max_lon = @ + Half]
        ELSE lat

\* area_partition.py:54-59: the box around center c = sum / n with radius
\* r = sqrt(r2) / n.  floor(2 (cx - r)) = floor((sum - ceil(sqrt r2)) / (n / 2))
\* because sum is an integer.
RawBoxNoRadius(c, r2) ==
    Box(FloorHalf(c.lat, c.n), FloorHalf(c.lon, c.n),
        CeilHalf(c.lat, c.n), CeilHalf(c.lon, c.n))
RawBox(c, r2) ==
    LET s == CeilSqrt(r2)
    IN  Box(FloorHalf(c.lat - s, c.n), FloorHalf(c.lon - s, c.n),
            CeilHalf(c.lat + s, c.n), CeilHalf(c.lon + s, c.n))

BBox(c, r2) == Widen(RawBox(c, r2))

InBox(lat, lon, b) ==
    /\ b.min_lat <= lat /\ lat <= b.max_lat
    /\ b.min_lon <= lon /\ lon <= b.max_lon

------------------------------------------------------------------------------
(* The data provider and the grid matcher *)

\* The rows nasa_data_area returns for a box: one row for every half-degree
\* grid cell whose center (at .25 / .75) lies in the box, latitude-major.
\* The value of a row stands for its date and measurements.
nasa_data_area(bbox) ==
    LET h == (bbox.max_lat - bbox.min_lat) \div Half
        w == (bbox.max_lon - bbox.min_lon) \div Half
    IN  [i \in 1..(h * w) |->
            LET lat == bbox.min_lat + Quarter + Half * ((i - 1) \div w)
                lon == bbox.min_lon + Quarter + Half * ((i - 1) % w)
            IN  GridRow(lat, lon, <<lat, lon>>)]

\* nasa_connector.py:119-120: 0.5 * round(2 * (x - 0.25)) + 0.25.
GridSnapNoOffset(x) == Half * PyRound(x, Half) + Quarter
GridSnap(x) == Half * PyRound(x - Quarter, Half) + Quarter

\* nasa_connector.py:121-123 for one location: the grid rows at the snapped
\* coordinate, relabelled with the location's own coordinates.  A missing
\* coordinate that round() lets through stays missing and equals no grid value.
MatchRowsKeepGrid(row, df) ==
    IF isna(row.lat) \/ isna(row.lon) THEN << >>
    ELSE SelectSeq(df, LAMBDA g : g.lat = GridSnap(row.lat)
                                     /\ g.lon = GridSnap(row.lon))
MatchRows(row, df) ==
    IF isna(row.lat) \/ isna(row.lon) THEN << >>
    ELSE LET lat == GridSnap(row.lat)
             lon == GridSnap(row.lon)
             df_loc == SelectSeq(df, LAMBDA g : g.lat = lat /\ g.lon = lon)
         IN  [i \in 1..Len(df_loc) |->
                [df_loc[i] EXCEPT !.lat = row.lat, !.lon = row.lon]]

------------------------------------------------------------------------------
(* State *)

VARIABLES
    call,              \* the entry point of this run
    pc,                \* the position in it
    raised,            \* the call that raised an exception, or "none"
    df_locations,      \* nasa_connector: the caller's table
    locations,         \* nasa_connector / match_grid_point: the locations
    unique_locations,  \* area_partition: the points to cluster
    k,                 \* area_partition: the number of clusters
    labels,            \* kmeans.labels_ (clusters are numbered from 1)
    cluster_centers,   \* kmeans.cluster_centers_, as sums with a count
    cluster_radii,     \* cluster_radii, as (n * radius)^2
    bboxes,            \* the boxes area_partition returns
    df_data,           \* the grid data
    result,            \* what match_grid_point returns
    coord,             \* a coordinate to snap
    grid               \* its grid coordinate

vars == << call, pc, raised, df_locations, locations, unique_locations, k,
           labels, cluster_centers, cluster_radii, bboxes, df_data, result,
           coord, grid >>

partition_vars == << unique_locations, k, labels, cluster_centers,
                     cluster_radii, bboxes >>

NoPartition ==
    /\ unique_locations = << >>
    /\ k = 0
    /\ labels = << >>
    /\ cluster_centers = << >>
    /\ cluster_radii = << >>
    /\ bboxes = << >>

\* nasa_connector(df_locations, ..., precision='area') with a table of at
\* most MaxRows rows.
InitConnector ==
    /\ call = "nasa_connector"
    /\ pc = "filter"
    /\ \E S \in SUBSET (1..Len(Places)) :
          /\ Cardinality(S) <= MaxRows
          /\ df_locations = RowsAt(S)
    /\ locations = << >>
    /\ df_data = << >>
    /\ coord = 0

\* match_grid_point(locations, df_data) called directly: at most MaxLocs
\* locations, at most MaxGridRows grid rows, the i-th carrying the value <<i>>.
InitMatch ==
    /\ call = "match_grid_point"
    /\ pc = "match"
    /\ df_locations = << >>
    /\ locations \in SeqsUpTo(MatchPlaces, MaxLocs)
    /\ \E cells \in SeqsUpTo(MatchCells, MaxGridRows) :
          df_data = [i \in 1..Len(cells) |->
                        GridRow(cells[i][1], cells[i][2], <<i>>)]
    /\ coord = 0

\* The snapping expression of match_grid_point on one coordinate, a multiple
\* of 0.05 degree within MaxCoord units of 0.
InitSnap ==
    /\ call = "grid_snap"
    /\ pc = "snap"
    /\ df_locations = << >>
    /\ locations = << >>
    /\ df_data = << >>
    /\ coord \in (-MaxCoord)..MaxCoord

Init ==
    /\ raised = "none"
    /\ result = << >>
    /\ grid = 0
    /\ NoPartition
    /\ (InitConnector \/ InitMatch \/ InitSnap)

------------------------------------------------------------------------------
(* Actions *)

\* nasa_connector.py:157-161: drop the rows that miss both coordinates, keep
\* the location columns and drop repeated rows.
FilterLocations ==
    /\ pc = "filter"
    /\ locations' = drop_duplicates(FilterMissing(df_locations))
    /\ pc' = "partition"
    /\ UNCHANGED << call, raised, df_locations, partition_vars, df_data,
                    result, coord, grid >>

\* area_partition.py:33-36: the unique, complete points; k = 0.
StartPartition ==
    /\ pc = "partition"
    /\ unique_locations' = dropna(drop_duplicates(LatLon(locations)))
    /\ k' = InitialK
    /\ pc' = "fit"
    /\ UNCHANGED << call, raised, df_locations, locations, labels,
                    cluster_centers, cluster_radii, bboxes, df_data, result,
                    coord, grid >>

\* area_partition.py:38-48: k += 1, fit k-means and measure every cluster's
\* radius.  KMeans raises ValueError when there are fewer points than
\* clusters (also on no points at all).  outcomes: the labellings the run can
\* end in.
Fit(outcomes) ==
    /\ pc = "fit"
    /\ k' = k + 1
    /\ IF k + 1 > Len(unique_locations)
       THEN /\ raised' = "KMeans"
            /\ pc' = "error"
            /\ UNCHANGED << labels, cluster_centers, cluster_radii >>
       ELSE /\ \E lab \in outcomes :
                 /\ labels' = lab
                 /\ cluster_centers' =
                       [i \in 1..(k + 1) |-> ClusterCenter(unique_locations, lab, i)]
                 /\ cluster_radii' =
                       [i \in 1..(k + 1) |-> ClusterRadius(unique_locations, lab, i)]
            /\ pc' = "check"
            /\ UNCHANGED raised
    /\ UNCHANGED << call, df_locations, locations, unique_locations, bboxes,
                    df_data, result, coord, grid >>

KMeansFit == Fit(KMeans(unique_locations, k + 1))

KMeansFitBest == Fit(KMeansBest(unique_locations, k + 1))

\* area_partition.py:48-51: max_radius <= 5.
RadiusSmallEnough ==
    \A i \in 1..k :
        RadiusAtMost(cluster_radii[i], cluster_centers[i].n, MaxRadius)

\* area_partition.py:51-67: the radius is small enough; build and return one
\* box per cluster.
BuildBoxes ==
    /\ pc = "check"
    /\ RadiusSmallEnough
    /\ bboxes' = [i \in 1..k |-> BBox(cluster_centers[i], cluster_radii[i])]
    /\ pc' = "fetch"
    /\ UNCHANGED << call, raised, df_locations, locations, unique_locations,
                    k, labels, cluster_centers, cluster_radii, df_data,
                    result, coord, grid >>

\* area_partition.py:51, 37: the radius is too big; next pass of the loop.
Retry ==
    /\ pc = "check"
    /\ ~RadiusSmallEnough
    /\ pc' = "fit"
    /\ UNCHANGED << call, raised, df_locations, locations, partition_vars,
                    df_data, result, coord, grid >>

\* nasa_connector.py:179-184: one area query per box, concatenated.
FetchAreas ==
    /\ pc = "fetch"
    /\ df_data' = concat([i \in 1..Len(bboxes) |-> nasa_data_area(bboxes[i])])
    /\ pc' = "match"
    /\ UNCHANGED << call, raised, df_locations, locations, partition_vars,
                    result, coord, grid >>

\* nasa_connector.py:117-126, match_grid_point.  round() of a missing
\* coordinate raises ValueError when the coordinate is a Python float and
\* yields NaN when it is an old numpy scalar: both outcomes are modelled.
\* pd.concat raises ValueError on an empty list of tables.
MatchGridPoint ==
    /\ pc = "match"
    /\ \/ /\ \E i \in 1..Len(locations) :
                isna(locations[i].lat) \/ isna(locations[i].lon)
          /\ raised' = "round"
          /\ pc' = "error"
          /\ UNCHANGED result
       \/ /\ locations = << >>
          /\ raised' = "concat"
          /\ pc' = "error"
          /\ UNCHANGED result
       \/ /\ locations # << >>
          /\ result' = concat([i \in 1..Len(locations) |->
                                  MatchRows(locations[i], df_data)])
          /\ pc' = "done"
          /\ UNCHANGED raised
    /\ UNCHANGED << call, df_locations, locations, partition_vars, df_data,
                    coord, grid >>

\* nasa_connector.py:119: the grid coordinate of one coordinate.
SnapCoordinate ==
    /\ pc = "snap"
    /\ grid' = GridSnap(coord)
    /\ pc' = "done"
    /\ UNCHANGED << call, raised, df_locations, locations, partition_vars,
                    df_data, result, coord >>

Next ==
    \/ FilterLocations
    \/ StartPartition
    \/ KMeansFit
    \/ BuildBoxes
    \/ Retry
    \/ FetchAreas
    \/ MatchGridPoint
    \/ SnapCoordinate

NextBest ==
    \/ FilterLocations
    \/ StartPartition
    \/ KMeansFitBest
    \/ BuildBoxes
    \/ Retry
    \/ FetchAreas
    \/ MatchGridPoint
    \/ SnapCoordinate

\* Every k-means run ends in some converged labelling.
Spec == Init /\ [][Next]_vars

\* Every k-means run ends in a labelling of least inertia.
SpecBest == Init /\ [][NextBest]_vars

------------------------------------------------------------------------------
(* Properties *)

\* area_partition has returned its boxes.
Returned == bboxes # << >>

NPoints == Len(unique_locations)

Abs(v) == IF v < 0 THEN -v ELSE v

InBoxOf(p, i) == InBox(p.lat, p.lon, bboxes[i])

\* The grid cell a point is snapped to lies in box i.
SnappedInBoxOf(p, i) == InBox(GridSnap(p.lat), GridSnap(p.lon), bboxes[i])

\* C1 (coverage): once area_partition has returned, every clustered point
\* lies inside at least one returned box.
C1_Coverage ==
    Returned =>
        \A j \in DOMAIN unique_locations :
            \E i \in DOMAIN bboxes : InBoxOf(unique_locations[j], i)

\* C1 witness: four points were split into two clusters and boxed.
C1_Witness == Returned /\ NPoints = 4 /\ Len(bboxes) = 2

\* C2 (size bound): every returned box is at most 10 degrees wide and at
\* most 10 degrees high.
C2_SizeBound ==
    Returned =>
        \A i \in DOMAIN bboxes :
            /\ bboxes[i].max_lat - bboxes[i].min_lat <= Deg(10)
            /\ bboxes[i].max_lon - bboxes[i].min_lon <= Deg(10)

\* The center of cluster i is a multiple of half a degree on the axis.
AlignedLat(i) == cluster_centers[i].lat % (Half * cluster_centers[i].n) = 0

AlignedLon(i) == cluster_centers[i].lon % (Half * cluster_centers[i].n) = 0

\* C3 (non-degeneracy): every returned box has min_lat < max_lat and
\* min_lon < max_lon, and a cluster of radius 0 whose center is half-degree
\* aligned on an axis gets, on that axis, the center widened by 0.5 degree on
\* each side (width 1.0).
C3_NonDegenerate ==
    Returned =>
        \A i \in DOMAIN bboxes :
            LET b == bboxes[i]
                c == cluster_centers[i]
            IN  /\ b.min_lat < b.max_lat
                /\ b.min_lon < b.max_lon
                /\ (cluster_radii[i] = 0 /\ AlignedLat(i)) =>
                      /\ b.min_lat = c.lat \div c.n - Half
                      /\ b.max_lat = c.lat \div c.n + Half
                /\ (cluster_radii[i] = 0 /\ AlignedLon(i)) =>
                      /\ b.min_lon = c.lon \div c.n - Half
                      /\ b.max_lon = c.lon \div c.n + Half

\* C3 witness: a returned cluster of radius 0 with a center aligned on one
\* axis only, next to a cluster of positive radius.
C3_Witness ==
    /\ Returned
    /\ \E i \in DOMAIN bboxes :
          cluster_radii[i] = 0 /\ AlignedLon(i) /\ ~AlignedLat(i)
    /\ \E i \in DOMAIN bboxes : cluster_radii[i] > 0

\* The points with the indices M fit into one box of at most 10 x 10 degrees.
FitsOneBox(X, M) ==
    \A a, b \in M :
        /\ Abs(X[a].lat - X[b].lat) <= Deg(10)
        /\ Abs(X[a].lon - X[b].lon) <= Deg(10)

\* The least number of boxes of at most 10 x 10 degrees that cover X.
MinBoxes(X) ==
    CHOOSE m \in 1..Len(X) :
        /\ \E lab \in Labellings(X, m) :
              \A i \in 1..m : FitsOneBox(X, Members(lab, i))
        /\ \A fewer \in 1..(m - 1) :
              \A lab \in Labellings(X, fewer) :
                 \E i \in 1..fewer : ~FitsOneBox(X, Members(lab, i))

\* All points lie within 5 degrees of their mean.
AllWithinFiveDegrees(X) ==
    LET one == [j \in DOMAIN X |-> 1]
    IN  RadiusAtMost(ClusterRadius(X, one, 1), Len(X), Deg(5))

\* C4 as stated (minimal cardinality): no smaller number of boxes of at most
\* 10 x 10 degrees covers the points than the number of boxes returned, and a
\* single point gets exactly one box.
C4_MinimalCardinality ==
    Returned =>
        /\ Len(bboxes) = MinBoxes(unique_locations)
        /\ NPoints = 1 => Len(bboxes) = 1

\* C4 as amended: area_partition returns one box per cluster of the k it
\* stopped at; that number is at least the least number of 10 x 10 boxes
\* covering the points and at most the number of points, it is 1 exactly when
\* all points lie within 5 degrees of their mean, and so it is 1 for a single
\* point.
C4_BoxCount ==
    Returned =>
        /\ Len(bboxes) = k
        /\ MinBoxes(unique_locations) <= Len(bboxes)
        /\ Len(bboxes) <= NPoints
        /\ Len(bboxes) = 1 <=> AllWithinFiveDegrees(unique_locations)
        /\ NPoints = 1 => Len(bboxes) = 1

\* C4 witness: three or more points, two boxes returned, and no single
\* 10 x 10 box would do.
C4_Witness ==
    /\ Returned
    /\ NPoints >= 3
    /\ Len(bboxes) = 2
    /\ MinBoxes(unique_locations) = 2

\* match_grid_point has ended, with a table or with an exception of its own.
MatchEnded ==
    /\ call # "grid_snap"
    /\ \/ pc = "done"
       \/ pc = "error" /\ raised \in {"round", "concat"}

\* The indices of the grid rows at the cell location i is snapped to.
RowsAtCellOf(i) ==
    { g \in DOMAIN df_data :
        /\ df_data[g].lat = GridSnap(locations[i].lat)
        /\ df_data[g].lon = GridSnap(locations[i].lon) }

\* The grid data holds exactly one row for every location's snapped cell.
OneRowPerSnappedCell ==
    \A i \in DOMAIN locations :
        /\ ~isna(locations[i].lat)
        /\ ~isna(locations[i].lon)
        /\ Cardinality(RowsAtCellOf(i)) = 1

\* One row per location, in location order, with the location's own
\* coordinates and the value of the grid row at its snapped cell.
Relabelled ==
    /\ pc = "done"
    /\ Len(result) = Len(locations)
    /\ \A i \in DOMAIN locations :
          /\ result[i].lat = locations[i].lat
          /\ result[i].lon = locations[i].lon
          /\ \E g \in RowsAtCellOf(i) : result[i].value = df_data[g].value

\* C5 as stated (match relabelling): for every list of locations and every
\* grid dataset holding exactly one row for each location's snapped cell,
\* match_grid_point returns one relabelled row per location, in order.
C5_MatchRelabelsAnyList ==
    (MatchEnded /\ OneRowPerSnappedCell) => Relabelled

\* C5 as amended: the same for every non-empty list of locations (on an
\* empty list pd.concat raises); and match_grid_point leaves the grid
\* dataset unchanged.
C5_MatchRelabels ==
    /\ []((MatchEnded /\ locations # << >> /\ OneRowPerSnappedCell)
             => Relabelled)
    /\ [][pc = "match" => df_data' = df_data]_vars

\* C5 witness: a direct call with two different locations snapped to two
\* different cells, among three grid rows, has returned.
C5_Witness ==
    /\ call = "match_grid_point"
    /\ pc = "done"
    /\ Len(locations) = 2
    /\ Len(df_data) = 3
    /\ OneRowPerSnappedCell
    /\ RowsAtCellOf(1) # RowsAtCellOf(2)

\* g is a grid center: n / 2 + 0.25 degrees.
IsGridCenter(g) == (g - Quarter) % Half = 0

\* C6 (grid snap is nearest-center): the snapped value of a coordinate is a
\* grid center, at most 0.25 degree away, and no grid center is strictly
\* closer to the coordinate.
C6_SnapNearest ==
    (call = "grid_snap" /\ pc = "done") =>
        /\ IsGridCenter(grid)
        /\ Abs(coord - grid) <= Quarter
        /\ \A c \in (coord - Deg(1))..(coord + Deg(1)) :
              IsGridCenter(c) => Abs(coord - grid) <= Abs(coord - c)

\* C6 witness: a negative coordinate exactly between two grid centers (a
\* tie of round) has been snapped.
C6_Witness ==
    /\ call = "grid_snap"
    /\ pc = "done"
    /\ coord < 0
    /\ coord % Half = 0
    /\ Abs(coord - grid) = Quarter

\* C7 (missing coordinates): in nasa_connector no row that misses a
\* coordinate reaches the clustered points, and no call fails on such a row.
C7_MissingRowsHarmless ==
    call = "nasa_connector" =>
        /\ \A j \in DOMAIN unique_locations :
              ~isna(unique_locations[j].lat) /\ ~isna(unique_locations[j].lon)
        /\ raised # "round"

\* C8 (snapped cell inside the box): for every clustered point, the grid
\* center it is snapped to lies within a returned box that contains the
\* point.
C8_SnappedCellInBox ==
    Returned =>
        \A j \in DOMAIN unique_locations :
            \E i \in DOMAIN bboxes :
                /\ InBoxOf(unique_locations[j], i)
                /\ SnappedInBoxOf(unique_locations[j], i)

\* Boxes i and j share a half-degree grid cell.
ShareCell(i, j) ==
    LET a == bboxes[i]
        b == bboxes[j]
        Lo(u, v) == IF u < v THEN u ELSE v
        Hi(u, v) == IF u < v THEN v ELSE u
    IN  /\ Hi(a.min_lat, b.min_lat) < Lo(a.max_lat, b.max_lat)
        /\ Hi(a.min_lon, b.min_lon) < Lo(a.max_lon, b.max_lon)

\* C9 (exactly one box per point): every clustered point lies inside exactly
\* one returned box, and no half-degree grid cell is covered by two of them.
C9_ExactlyOneBox ==
    Returned =>
        /\ \A j \in DOMAIN unique_locations :
              Cardinality({ i \in DOMAIN bboxes :
                              InBoxOf(unique_locations[j], i) }) = 1
        /\ \A i, j \in DOMAIN bboxes : i # j => ~ShareCell(i, j)

\* C10 (termination of the k search): with at least one point, k-means is
\* never run with more clusters than points (it never raises), every pass of
\* the loop raises k by one, the pass with k = n is accepted, and an accepted
\* pass returns the boxes: the loop returns after at most n passes.
C10_Termination ==
    /\ [](NPoints >= 1 =>
            /\ raised # "KMeans"
            /\ k <= NPoints
            /\ pc = "fit" => k < NPoints
            /\ (pc = "check" /\ k = NPoints) => RadiusSmallEnough)
    /\ [][(pc = "fit" /\ NPoints >= 1) => (k' = k + 1 /\ pc' = "check")]_vars
    /\ [][(pc = "check" /\ RadiusSmallEnough) => Returned']_vars

\* C10 witness: three points needed three passes, and the boxes were returned
\* at k = n.
C10_Witness == Returned /\ NPoints = 3 /\ k = 3

==============================================================================
